---- MODULE Spec2Model ----
(***************************************************************************)
(* A model of advanced-vector/vector.h: RawMemory<T> (a block of raw,      *)
(* uninitialised storage) and Vector<T> (the array built on it).           *)
(*                                                                         *)
(* The heap is a map from block addresses to the cells of the block.  A    *)
(* cell is Raw (no object lives there), a value >= 0 (a live object with   *)
(* that value), Moved (a live object in its moved-from state) or           *)
(* Unspecified (memory a library loop overwrote off its range).  Every     *)
(* operation of Vector is one action; the points at which operator new or  *)
(* a constructor / assignment of T may throw are inputs of the action.     *)
(***************************************************************************)
EXTENDS Integers, Sequences, FiniteSets, TLC

VARIABLES
    T,      \* the element type: the traits vector.h queries, and what may throw
    vec,    \* the Vector objects: data_ (buffer_, capacity_) and size_
    heap,   \* block address -> cells of the block (<<>>: not allocated)
    last,   \* the call that produced this state: arguments, outcome, result
    ref,    \* a reference stack driven by the PushBack / PopBack calls
    thrown, \* whether a PushBack driving the reference stack has thrown
    live    \* the Vector objects whose lifetime has begun and not ended

vars == <<T, vec, heap, last, ref, thrown, live>>

---------------------------------------------------------------------------
(* Bounds of the model. *)

\* the largest capacity an array grows to in the one-array specifications
MaxCap == 3
\* the largest capacity an array grows to in the specifications of the
\* appending and inserting calls
MaxCapStack == 4
\* the largest capacity an array grows to in the two-array specification
MaxCapTwo == 2
\* the number of block addresses the allocator hands out
NBlocks == 3

\* the values a caller passes in
Values == {1, 2}

---------------------------------------------------------------------------
(* Storage. *)

Vecs == {"a", "b"}
Blocks == 1..NBlocks

\* T* buffer_ = nullptr
NullPtr == 0
\* a cell of raw memory that holds no object
Raw == -1
\* an object that has been moved from (valid, value unspecified)
Moved == -2
\* the value of T()
DefaultValue == 0
\* what a cell holds once a loop of the library has run off its range
Unspecified == -3

\* the result of a call that returns nothing
NoRet == <<NullPtr, 0>>

(* Element types, by what vector.h asks of them:                           *)
(*   nothrowMove        std::is_nothrow_move_constructible_v<T>            *)
(*   copyable           std::is_copy_constructible_v<T>                    *)
(*   nothrowMoveAssign  std::is_nothrow_move_assignable_v<T>               *)
(*   throws             copy / default / converting constructors and copy  *)
(*                      assignment may throw                               *)
(*   trivial            a move leaves the source's value in place          *)
IntT ==
    [name |-> "int", nothrowMove |-> TRUE, copyable |-> TRUE,
     nothrowMoveAssign |-> TRUE, throws |-> FALSE, trivial |-> TRUE]
StringT ==
    [name |-> "string", nothrowMove |-> TRUE, copyable |-> TRUE,
     nothrowMoveAssign |-> TRUE, throws |-> TRUE, trivial |-> FALSE]
ThrowingT ==
    [name |-> "throwing", nothrowMove |-> FALSE, copyable |-> TRUE,
     nothrowMoveAssign |-> FALSE, throws |-> TRUE, trivial |-> FALSE]
ThrowingMoveOnlyT ==
    [name |-> "throwingmoveonly", nothrowMove |-> FALSE, copyable |-> FALSE,
     nothrowMoveAssign |-> FALSE, throws |-> TRUE, trivial |-> FALSE]

Types == {IntT, StringT, ThrowingT, ThrowingMoveOnlyT}

\* RawMemory(): buffer_ = nullptr, capacity_ = 0; Vector(): size_ = 0
EmptyVector == [buffer |-> NullPtr, capacity |-> 0, size |-> 0]

Cells(h, b) == IF b = NullPtr THEN <<>> ELSE h[b]

SetCells(h, b, c) == IF b = NullPtr THEN h ELSE [h EXCEPT ![b] = c]

LiveCount(cells) == Cardinality({i \in DOMAIN cells : cells[i] # Raw})

\* the address operator new returns: some block not in use
NewBlock(h) == CHOOSE b \in Blocks : h[b] = <<>> /\ \A c \in Blocks : h[c] = <<>> => b <= c

\* RawMemory::Allocate(n): nullptr for n = 0, else n raw cells
AllocatedAt(h, n) == IF n = 0 THEN NullPtr ELSE NewBlock(h)

Allocate(h, n) == IF n = 0 THEN h ELSE [h EXCEPT ![NewBlock(h)] = [i \in 1..n |-> Raw]]

\* RawMemory::Deallocate(buf): operator delete; nullptr is a no-op
Deallocate(h, b) == IF b = NullPtr THEN h ELSE [h EXCEPT ![b] = <<>>]

\* the elements of array v, read through operator[] for 0 <= i < Size()
ElementsOf(vs, h, v) ==
    IF vs[v].size = 0 THEN <<>> ELSE SubSeq(Cells(h, vs[v].buffer), 1, vs[v].size)

Elements(v) == ElementsOf(vec, heap, v)

---------------------------------------------------------------------------
(* Operations of the standard library on cells.  Offsets are 0-based as in *)
(* the source; cell i of a block is cells[i + 1].                          *)

\* what a move leaves in its source
MovedFrom(x) == IF T.trivial THEN x ELSE Moved

\* std::destroy_n(p + off, n)
DestroyN(cells, off, n) ==
    [i \in DOMAIN cells |-> IF off < i /\ i <= off + n THEN Raw ELSE cells[i]]

\* std::uninitialized_copy_n(src + sOff, n, dst + dOff); the k-th copy throws
\* (k = 0: none does), and then the copies already made are destroyed.
UninitializedCopyN(src, sOff, n, dst, dOff, k) ==
    [src |-> src,
     dst |-> IF k > 0 THEN dst
             ELSE [i \in DOMAIN dst |->
                      IF dOff < i /\ i <= dOff + n THEN src[i - dOff + sOff] ELSE dst[i]],
     kind |-> "copy"]

\* std::uninitialized_move_n(src + sOff, n, dst + dOff); the k-th move throws
\* (k = 0: none does): the first k - 1 sources are moved from and their
\* destinations are destroyed.
UninitializedMoveN(src, sOff, n, dst, dOff, k) ==
    LET done == IF k > 0 THEN k - 1 ELSE n IN
    [src |-> [i \in DOMAIN src |->
                 IF sOff < i /\ i <= sOff + done THEN MovedFrom(src[i]) ELSE src[i]],
     dst |-> IF k > 0 THEN dst
             ELSE [i \in DOMAIN dst |->
                      IF dOff < i /\ i <= dOff + n THEN src[i - dOff + sOff] ELSE dst[i]],
     kind |-> "move"]

\* a migration that moves whatever the element type is
UseMoveAlways == TRUE

\* if constexpr (is_nothrow_move_constructible_v<T> || !is_copy_constructible_v<T>)
UseMove == T.nothrowMove \/ ~T.copyable

\* the migration of n elements into a new block: moved or copied
Relocate(src, sOff, n, dst, dOff, k) ==
    IF UseMove THEN UninitializedMoveN(src, sOff, n, dst, dOff, k)
    ELSE UninitializedCopyN(src, sOff, n, dst, dOff, k)

\* whether the constructor the migration uses may throw
MigrationMayThrow == IF UseMove THEN ~T.nothrowMove ELSE T.throws

\* the invocation at which the migration of n elements throws (0: never)
MigrateFailPoints(n) == IF MigrationMayThrow THEN 0..n ELSE {0}

\* whether constructing the new element may throw: from a const T& (copy),
\* from a T&& (move) or from other constructor arguments (args)
NewElemMayThrow(how) ==
    CASE how = "copy" -> T.throws
      [] how = "move" -> ~T.nothrowMove
      [] OTHER -> T.throws

\* what a call leaves behind: the arrays and the heap, whether it returned
\* ("ok"), threw ("threw") or left defined behaviour ("ub"), which kind of
\* operation threw and, in a migration, at which element (k), the iterator or
\* reference returned, and how many objects the call leaked (their storage
\* released or reused without their destructor), destroyed and how many
\* blocks it allocated.
Res(vs, h, outcome, fail, k, ret, leaked, destroyed, allocs) ==
    [vec |-> vs, heap |-> h, outcome |-> outcome, fail |-> fail, k |-> k, ret |-> ret,
     leaked |-> leaked, destroyed |-> destroyed, allocs |-> allocs]

---------------------------------------------------------------------------
(* Vector<T> *)

\* a growth by one cell
GrowthCapacityByOne(s) == s + 1

\* size_ == 0 ? 1 : size_ * 2
GrowthCapacity(s) == IF s = 0 THEN 1 ELSE s * 2

\* a Reserve that reallocates when asked for the capacity it has
ReserveIsNoopBelow(cap, n) == n < cap

\* if (new_capacity <= data_.Capacity()) return;
ReserveIsNoop(cap, n) == n <= cap

\* a growth that swaps the new block in before it migrates: on failure the
\* array is left with the new block and the old one is released
FailedGrowthKeepsNewBlock(vs, h, v, nb, src, dst, kind, k) ==
    [vec |-> [vs EXCEPT ![v].buffer = nb, ![v].capacity = Len(dst)],
     heap |-> Deallocate(SetCells(h, nb, dst), vs[v].buffer),
     outcome |-> "threw", fail |-> kind, k |-> k, ret |-> NoRet,
     leaked |-> LiveCount(src), destroyed |-> 0, allocs |-> 1]

\* a failed growth that runs the destructors of the old elements
FailedGrowthDestroysOld(vs, h, v, nb, src, dst, kind, k) ==
    [vec |-> vs,
     heap |-> Deallocate(SetCells(h, vs[v].buffer,
                                  [i \in DOMAIN src |-> IF i <= vs[v].size THEN Raw ELSE src[i]]),
                         nb),
     outcome |-> "threw", fail |-> kind, k |-> k, ret |-> NoRet,
     leaked |-> LiveCount(dst), destroyed |-> vs[v].size, allocs |-> 1]

\* An exception leaves a growth path: nothing catches it, data_ and size_ are
\* as they were, and ~RawMemory() of new_data releases the new block nb as it
\* is; src is what the migration left in the old block.
FailedGrowth(vs, h, v, nb, src, dst, kind, k) ==
    Res(vs, Deallocate(SetCells(h, vs[v].buffer, src), nb),
        "threw", kind, k, NoRet, LiveCount(dst), 0, 1)

\* void Reserve(size_t new_capacity)
ReserveResults(vs, h, v, n) ==
    LET d == vs[v]
        nb == AllocatedAt(h, n)
        h1 == Allocate(h, n)
    IN
    IF ReserveIsNoop(d.capacity, n) THEN {Res(vs, h, "ok", "none", 0, NoRet, 0, 0, 0)}
    ELSE {Res(vs, h, "threw", "alloc", 0, NoRet, 0, 0, 0)}
         \cup
         { LET m == Relocate(Cells(h1, d.buffer), 0, d.size, Cells(h1, nb), 0, k) IN
           IF k > 0
           THEN FailedGrowth(vs, h1, v, nb, m.src, m.dst, m.kind, k)
           ELSE LET old == DestroyN(m.src, 0, d.size)
                    h2 == SetCells(SetCells(h1, d.buffer, old), nb, m.dst)
                IN \* data_.Swap(new_data); ~RawMemory() releases the old block
                   Res([vs EXCEPT ![v] = [buffer |-> nb, capacity |-> n, size |-> d.size]],
                       Deallocate(h2, d.buffer),
                       "ok", "none", 0, NoRet, LiveCount(old), d.size, 1)
           : k \in MigrateFailPoints(d.size) }

\* The body shared by PushBack(const T&), PushBack(T&&) and EmplaceBack(args):
\* they differ in how the new element is constructed.
AppendResults(vs, h, v, x, how) ==
    LET d == vs[v]
        s == d.size
        nc == GrowthCapacity(s)
        nb == AllocatedAt(h, nc)
        h1 == Allocate(h, nc)
        \* new (new_data + size_) T(...)
        h2 == SetCells(h1, nb, [Cells(h1, nb) EXCEPT ![s + 1] = x])
        cur == Cells(h, d.buffer)
    IN
    IF s = d.capacity
    THEN {Res(vs, h, "threw", "alloc", 0, NoRet, 0, 0, 0)}
         \cup
         (IF NewElemMayThrow(how) THEN {Res(vs, h, "threw", how, 0, NoRet, 0, 0, 1)} ELSE {})
         \cup
         { LET m == Relocate(Cells(h2, d.buffer), 0, s, Cells(h2, nb), 0, k) IN
           IF k > 0
           THEN FailedGrowth(vs, h2, v, nb, m.src, m.dst, m.kind, k)
           ELSE LET old == DestroyN(m.src, 0, s)
                    h3 == SetCells(SetCells(h2, d.buffer, old), nb, m.dst)
                IN Res([vs EXCEPT ![v] = [buffer |-> nb, capacity |-> nc, size |-> s + 1]],
                       Deallocate(h3, d.buffer),
                       "ok", "none", 0, <<nb, s>>, LiveCount(old), s, 1)
           : k \in MigrateFailPoints(s) }
    ELSE (IF NewElemMayThrow(how) THEN {Res(vs, h, "threw", how, 0, NoRet, 0, 0, 0)} ELSE {})
         \cup
         \* new (data_ + size_) T(...); size_ += 1
         {Res([vs EXCEPT ![v].size = s + 1],
              SetCells(h, d.buffer, [cur EXCEPT ![s + 1] = x]),
              "ok", "none", 0, <<d.buffer, s>>,
              IF cur[s + 1] # Raw THEN 1 ELSE 0, 0, 0)}

\* T& EmplaceBack(Args&&... args)
EmplaceBackResults(vs, h, v, x) == AppendResults(vs, h, v, x, "args")

\* void PushBack(const T& value)
PushBackResults(vs, h, v, x) ==
    {[r EXCEPT !.ret = NoRet] : r \in AppendResults(vs, h, v, x, "copy")}

\* void PushBack(T&& value)
PushBackMoveResults(vs, h, v, x) ==
    {[r EXCEPT !.ret = NoRet] : r \in AppendResults(vs, h, v, x, "move")}

\* void PopBack() noexcept
PopBackResults(vs, h, v) ==
    LET d == vs[v] IN
    IF d.size > 0
    THEN {Res([vs EXCEPT ![v].size = d.size - 1],
              SetCells(h, d.buffer, DestroyN(Cells(h, d.buffer), d.size - 1, 1)),
              "ok", "none", 0, NoRet, 0, 1, 0)}
    ELSE {Res(vs, h, "ok", "none", 0, NoRet, 0, 0, 0)}

\* std::move_backward, n assignments done: *--d_last = std::move(*--last)
RECURSIVE MoveBackwardN(_, _, _, _)
MoveBackwardN(cells, lastOff, dLastOff, n) ==
    IF n = 0 THEN cells
    ELSE LET c == MoveBackwardN(cells, lastOff, dLastOff, n - 1)
             src == lastOff - n + 1
             dst == dLastOff - n + 1
         IN [[c EXCEPT ![dst] = c[src]] EXCEPT ![src] = MovedFrom(c[src])]

\* std::move, n assignments done: *d_first++ = std::move(*first++)
RECURSIVE MoveForwardN(_, _, _, _)
MoveForwardN(cells, firstOff, dFirstOff, n) ==
    IF n = 0 THEN cells
    ELSE LET c == MoveForwardN(cells, firstOff, dFirstOff, n - 1)
             src == firstOff + n
             dst == dFirstOff + n
         IN [[c EXCEPT ![dst] = c[src]] EXCEPT ![src] = MovedFrom(c[src])]

\* the assignment at which a run of n move assignments throws (0: never)
AssignFailPoints(n) == IF T.nothrowMoveAssign THEN {0} ELSE 0..n

\* what std::move_backward(first, last, d_last) does when first is past last,
\* which the standard leaves undefined: the loops of the library either run
\* no iteration ("skip") or run off the block ("ub")
InvalidRangeOutcomes == {"skip", "ub"}

\* Emplace, size_ == Capacity() && size_ > 0: the new block is built around
\* the new element at index idx
EmplaceGrow(vs, h, v, idx, x, how) ==
    LET d == vs[v]
        s == d.size
        nc == s * 2
        nb == AllocatedAt(h, nc)
        h1 == Allocate(h, nc)
        \* new (new_data + index_position) T(std::forward<Args>(args)...)
        h2 == SetCells(h1, nb, [Cells(h1, nb) EXCEPT ![idx + 1] = x])
    IN
    {Res(vs, h, "threw", "alloc", 0, NoRet, 0, 0, 0)}
    \cup
    (IF NewElemMayThrow(how) THEN {Res(vs, h, "threw", how, 0, NoRet, 0, 0, 1)} ELSE {})
    \cup
    { LET k1 == IF k <= idx THEN k ELSE 0
          k2 == IF k > idx THEN k - idx ELSE 0
          m1 == Relocate(Cells(h2, d.buffer), 0, idx, Cells(h2, nb), 0, k1)
          m2 == Relocate(m1.src, idx, s - idx, m1.dst, idx + 1, k2)
          m == IF k1 > 0 THEN m1 ELSE m2
      IN
      IF k > 0
      THEN FailedGrowth(vs, h2, v, nb, m.src, m.dst, m.kind, k)
      ELSE LET old == DestroyN(m.src, 0, s)
               h3 == SetCells(SetCells(h2, d.buffer, old), nb, m.dst)
           IN Res([vs EXCEPT ![v] = [buffer |-> nb, capacity |-> nc, size |-> s + 1]],
                  Deallocate(h3, d.buffer),
                  "ok", "none", 0, <<nb, idx>>, LiveCount(old), s, 1)
      : k \in MigrateFailPoints(s) }

\* std::move_backward over a range whose first lies behind its last: the loop
\* runs off the block and overwrites the memory around it, the cells of every
\* block included
RunOffRange(h) == [b \in Blocks |-> [i \in DOMAIN h[b] |-> Unspecified]]

\* Emplace, 0 < size_ < Capacity(): the elements are shifted in place
EmplaceShift(vs, h, v, idx, x, how) ==
    LET d == vs[v]
        s == d.size
        cur == Cells(h, d.buffer)
        \* new (data_ + size_) T(std::move(data_[size_ - 1]))
        c1 == [[cur EXCEPT ![s + 1] = cur[s]] EXCEPT ![s] = MovedFrom(cur[s])]
        over == IF cur[s + 1] # Raw THEN 1 ELSE 0
        \* the assignments of std::move_backward(begin() + idx, end() - 1, end())
        n == s - 1 - idx
        Shifted(j) == MoveBackwardN(c1, s - 1, s, j)
        Threw(c, kind) == Res(vs, SetCells(h, d.buffer, c), "threw", kind, 0, NoRet, over, 0, 0)
        \* data_[index_position] = std::move(copy_elem); size_ += 1
        Placed(c) ==
            (IF T.nothrowMoveAssign THEN {} ELSE {Threw(c, "assign")})
            \cup
            {Res([vs EXCEPT ![v].size = s + 1],
                 SetCells(h, d.buffer, [c EXCEPT ![idx + 1] = x]),
                 "ok", "none", 0, <<d.buffer, idx>>, over, 0, 0)}
    IN
    \* T copy_elem(std::forward<Args>(args)...)
    (IF NewElemMayThrow(how) THEN {Res(vs, h, "threw", how, 0, NoRet, 0, 0, 0)} ELSE {})
    \cup
    (IF T.nothrowMove THEN {} ELSE {Res(vs, h, "threw", "move", 0, NoRet, 0, 0, 0)})
    \cup
    (IF n < 0
     THEN UNION { IF o = "ub"
                  THEN {Res(vs, RunOffRange(SetCells(h, d.buffer, c1)), "ub", "none", 0,
                            NoRet, over, 0, 0)}
                  ELSE Placed(c1)
                  : o \in InvalidRangeOutcomes }
     ELSE UNION { IF j > 0 THEN {Threw(Shifted(j - 1), "assign")} ELSE Placed(Shifted(n))
                  : j \in AssignFailPoints(n) })

\* iterator Emplace(const_iterator pos, Args&&... args)
EmplaceResults(vs, h, v, idx, x, how) ==
    IF vs[v].size = vs[v].capacity /\ vs[v].size > 0
    THEN EmplaceGrow(vs, h, v, idx, x, how)
    ELSE IF vs[v].size > 0
    THEN EmplaceShift(vs, h, v, idx, x, how)
    ELSE \* EmplaceBack(std::forward<Args>(args)...); return data_.GetAddress()
         {[r EXCEPT !.ret = IF r.outcome = "ok" THEN <<r.vec[v].buffer, 0>> ELSE NoRet]
            : r \in EmplaceBackResults(vs, h, v, x)}

\* iterator Insert(const_iterator pos, const T& value): Emplace(pos, std::move(value)),
\* which copies, value being const
InsertResults(vs, h, v, idx, x) == EmplaceResults(vs, h, v, idx, x, "copy")

\* iterator Insert(const_iterator pos, T&& value)
InsertMoveResults(vs, h, v, idx, x) == EmplaceResults(vs, h, v, idx, x, "move")

\* what a const T& bound to element j of a block yields when the block has
\* the given cells
ReadAliased(cells, j) == cells[j + 1]

\* PushBack(data_[j]): both branches construct the new element from value
\* before they move or destroy any element
PushBackAliasResults(vs, h, v, j) ==
    PushBackResults(vs, h, v, ReadAliased(Cells(h, vs[v].buffer), j))

\* Insert(pos, data_[j]): the reallocating branch constructs the new element
\* from value, and the shifting branch constructs copy_elem from it, before
\* they move or assign any element
InsertAliasResults(vs, h, v, idx, j) ==
    InsertResults(vs, h, v, idx, ReadAliased(Cells(h, vs[v].buffer), j))

\* if constexpr (std::is_nothrow_move_assignable_v<T>): Erase shifts the tail
EraseShifts == T.nothrowMoveAssign

\* iterator Erase(const_iterator pos) noexcept
EraseResults(vs, h, v, idx) ==
    LET d == vs[v]
        s == d.size
        cur == Cells(h, d.buffer)
        \* std::move(begin() + idx + 1, end(), begin() + idx)
        c1 == IF EraseShifts THEN MoveForwardN(cur, idx + 1, idx, s - idx - 1) ELSE cur
        \* std::destroy_n(end() - 1, 1); size_ -= 1
        c2 == DestroyN(c1, s - 1, 1)
    IN
    IF s > 0
    THEN {Res([vs EXCEPT ![v].size = s - 1], SetCells(h, d.buffer, c2),
              "ok", "none", 0,
              IF s - 1 > 0 THEN <<d.buffer, idx>> ELSE <<d.buffer, s - 1>>,
              0, 1, 0)}
    ELSE {Res(vs, h, "ok", "none", 0, <<d.buffer, s>>, 0, 0, 0)}

\* a value construction that stops one element short
ValueConstructNShort(cells, off, n) ==
    [i \in DOMAIN cells |-> IF off < i /\ i < off + n THEN DefaultValue ELSE cells[i]]

\* std::uninitialized_value_construct_n(p + off, n)
ValueConstructN(cells, off, n) ==
    [i \in DOMAIN cells |-> IF off < i /\ i <= off + n THEN DefaultValue ELSE cells[i]]

\* void Resize(size_t new_size)
ResizeResults(vs, h, v, n) ==
    LET d == vs[v]
        s == d.size
    IN
    IF n < s
    THEN {Res([vs EXCEPT ![v].size = n],
              SetCells(h, d.buffer, DestroyN(Cells(h, d.buffer), n, s - n)),
              "ok", "none", 0, NoRet, 0, s - n, 0)}
    ELSE IF n > s
    THEN UNION {
           IF r.outcome # "ok" THEN {r}
           ELSE LET b == r.vec[v].buffer
                    cur == Cells(r.heap, b)
                    over == LiveCount(SubSeq(cur, s + 1, n))
                IN (IF T.throws
                    THEN {Res(r.vec, r.heap, "threw", "default", 0, NoRet,
                              r.leaked, r.destroyed, r.allocs)}
                    ELSE {})
                   \cup
                   {Res([r.vec EXCEPT ![v].size = n],
                        SetCells(r.heap, b, ValueConstructN(cur, s, n - s)),
                        "ok", "none", 0, NoRet, r.leaked + over, r.destroyed, r.allocs)}
           : r \in ReserveResults(vs, h, v, n) }
    ELSE {Res(vs, h, "ok", "none", 0, NoRet, 0, 0, 0)}

\* the invocation at which a run of n copies or copy assignments throws
CopyFailPoints(n) == IF T.throws THEN 0..n ELSE {0}

\* Vector(const Vector& other): a block of exactly other.size_ cells and a
\* copy of each element; when a copy throws, the copies made are destroyed
\* and ~RawMemory() releases the block
CopyConstructResults(h, other) ==
    LET n == other.size
        nb == AllocatedAt(h, n)
        h1 == Allocate(h, n)
    IN
    (IF n > 0 THEN {[obj |-> EmptyVector, heap |-> h, outcome |-> "threw",
                     fail |-> "alloc", k |-> 0, allocs |-> 0]}
     ELSE {})
    \cup
    { LET m == UninitializedCopyN(Cells(h1, other.buffer), 0, n, Cells(h1, nb), 0, k) IN
      IF k > 0
      THEN [obj |-> EmptyVector, heap |-> Deallocate(h1, nb), outcome |-> "threw",
            fail |-> "copy", k |-> k, allocs |-> 1]
      ELSE [obj |-> [buffer |-> nb, capacity |-> n, size |-> n],
            heap |-> SetCells(h1, nb, m.dst), outcome |-> "ok",
            fail |-> "none", k |-> 0, allocs |-> IF n > 0 THEN 1 ELSE 0]
      : k \in CopyFailPoints(n) }

\* a move constructor that leaves the source its capacity
MoveConstructLeavesCapacity(other) ==
    [obj |-> other, other |-> [EmptyVector EXCEPT !.capacity = other.capacity]]

\* a move constructor that leaves the source its block
MoveConstructKeepsBlock(other) ==
    [obj |-> other, other |-> [other EXCEPT !.size = 0]]

\* a move constructor that leaves the sizes as they are
MoveConstructKeepsSizes(other) ==
    [obj |-> [other EXCEPT !.size = 0], other |-> [EmptyVector EXCEPT !.size = other.size]]

\* Vector(Vector&& other) noexcept: RawMemory(RawMemory&&) swaps other's block
\* into a null one, and the sizes are swapped
MoveConstruct(other) == [obj |-> other, other |-> EmptyVector]

\* ~Vector(): std::destroy_n(data_.GetAddress(), size_), then ~RawMemory()
\* releases the block with whatever still lives in it
DestroyVector(h, obj) ==
    LET cells == DestroyN(Cells(h, obj.buffer), 0, obj.size) IN
    [heap |-> Deallocate(h, obj.buffer), leaked |-> LiveCount(cells), destroyed |-> obj.size]

\* explicit Vector(size_t size): a block of size cells, each value-constructed;
\* when a constructor throws, the elements built are destroyed and
\* ~RawMemory() releases the block
SizeConstructResults(h, n) ==
    LET nb == AllocatedAt(h, n)
        h1 == Allocate(h, n)
    IN
    (IF n > 0 THEN {[obj |-> EmptyVector, heap |-> h, outcome |-> "threw",
                     fail |-> "alloc", k |-> 0, allocs |-> 0]}
     ELSE {})
    \cup
    (IF n > 0 /\ T.throws
     THEN {[obj |-> EmptyVector, heap |-> Deallocate(h1, nb), outcome |-> "threw",
            fail |-> "default", k |-> 0, allocs |-> 1]}
     ELSE {})
    \cup
    {[obj |-> [buffer |-> nb, capacity |-> n, size |-> n],
      heap |-> SetCells(h1, nb, ValueConstructN(Cells(h1, nb), 0, n)),
      outcome |-> "ok", fail |-> "none", k |-> 0, allocs |-> IF n > 0 THEN 1 ELSE 0]}

\* void Swap(Vector& other) noexcept: the blocks, the capacities and the
\* sizes change places
SwapResults(vs, h, v, other) ==
    {Res([[vs EXCEPT ![v] = vs[other]] EXCEPT ![other] = vs[v]], h,
         "ok", "none", 0, NoRet, 0, 0, 0)}

\* (*this)[i] = x: an assignment to the element operator[] refers to
WriteResults(vs, h, v, i, x) ==
    (IF T.throws THEN {Res(vs, h, "threw", "copyassign", 0, NoRet, 0, 0, 0)} ELSE {})
    \cup
    {Res(vs, SetCells(h, vs[v].buffer, [Cells(h, vs[v].buffer) EXCEPT ![i + 1] = x]),
         "ok", "none", 0, NoRet, 0, 0, 0)}

\* an assignment that always takes the copy-and-swap path
AlwaysCopyAndSwap(rhsSize, cap) == TRUE

\* an assignment that also takes the copy-and-swap path at rhs.size_ == Capacity()
NeedsCopyAndSwapAtCapacity(rhsSize, cap) == rhsSize >= cap

\* if (rhs.size_ > data_.Capacity()): copy-and-swap, else work in place
NeedsCopyAndSwap(rhsSize, cap) == rhsSize > cap

\* an element-wise assignment that skips the first element
CopyAssignNFromSecond(dst, src, n) ==
    [i \in DOMAIN dst |-> IF 1 < i /\ i <= n THEN src[i] ELSE dst[i]]

\* for (i = 0; i < n; ++i) data_[i] = rhs.data_[i], n assignments done
CopyAssignN(dst, src, n) == [i \in DOMAIN dst |-> IF i <= n THEN src[i] ELSE dst[i]]

\* Vector& operator=(const Vector& rhs)
CopyAssignResults(vs, h, v, other) ==
    LET d == vs[v]
        r == vs[other]
        mine == Cells(h, d.buffer)
        theirs == Cells(h, r.buffer)
        common == IF d.size > r.size THEN r.size ELSE d.size
        Partial(j) == Res(vs, SetCells(h, d.buffer, CopyAssignN(mine, theirs, j - 1)),
                          "threw", "copyassign", j, NoRet, 0, 0, 0)
        assigned == CopyAssignN(mine, theirs, common)
    IN
    IF v = other THEN {Res(vs, h, "ok", "none", 0, NoRet, 0, 0, 0)}
    ELSE IF NeedsCopyAndSwap(r.size, d.capacity)
    THEN \* Vector rhs_copy(rhs); Swap(rhs_copy); ~Vector() of rhs_copy
         { IF c.outcome # "ok"
           THEN Res(vs, c.heap, "threw", c.fail, c.k, NoRet, 0, 0, c.allocs)
           ELSE LET gone == DestroyVector(c.heap, d) IN
                Res([vs EXCEPT ![v] = c.obj], gone.heap,
                    "ok", "none", 0, NoRet, gone.leaked, gone.destroyed, c.allocs)
           : c \in CopyConstructResults(h, r) }
    ELSE {Partial(j) : j \in CopyFailPoints(common) \ {0}}
         \cup
         (IF d.size > r.size
          THEN \* std::destroy_n(data_.GetAddress() + rhs.size_, size_ - rhs.size_)
               {Res([vs EXCEPT ![v].size = r.size],
                    SetCells(h, d.buffer, DestroyN(assigned, r.size, d.size - r.size)),
                    "ok", "none", 0, NoRet, 0, d.size - r.size, 0)}
          ELSE \* std::uninitialized_copy_n(rhs.data_ + size_, rhs.size_ - size_, data_ + size_)
               { LET m == UninitializedCopyN(theirs, d.size, r.size - d.size,
                                             assigned, d.size, k) IN
                 IF k > 0
                 THEN Res(vs, SetCells(h, d.buffer, assigned),
                          "threw", "copy", k, NoRet, 0, 0, 0)
                 ELSE Res([vs EXCEPT ![v].size = r.size],
                          SetCells(h, d.buffer, m.dst),
                          "ok", "none", 0, NoRet,
                          LiveCount(SubSeq(assigned, d.size + 1, r.size)), 0, 0)
                 : k \in CopyFailPoints(r.size - d.size) })

\* Vector& operator=(Vector&& rhs) noexcept
MoveAssignResults(vs, h, v, other) ==
    LET d == vs[v]
        r == vs[other]
        \* Vector rhs_copy(std::move(rhs)); Swap(rhs_copy); ~Vector() of rhs_copy
        mv == MoveConstruct(r)
        gone == DestroyVector(h, d)
    IN
    IF v # other /\ NeedsCopyAndSwap(r.size, d.capacity)
    THEN {Res([[vs EXCEPT ![other] = mv.other] EXCEPT ![v] = mv.obj], gone.heap,
              "ok", "none", 0, NoRet, gone.leaked, gone.destroyed, 0)}
    ELSE {Res(vs, h, "ok", "none", 0, NoRet, 0, 0, 0)}

---------------------------------------------------------------------------
(* Actions: one per call. *)

\* What the history variables keep of a call on one array: with "call", the
\* call, its arguments and what it did; with "stack", the reference stack
\* too; with "target", the array and the outcome only; with "none", its
\* outcome only.
Hists == {"call", "stack", "target", "none"}

InitLast ==
    [op |-> "init", v |-> "a", other |-> "a", idx |-> 0, val |-> 0, n |-> 0,
     outcome |-> "ok", fail |-> "none", k |-> 0, ret |-> NoRet,
     leaked |-> 0, destroyed |-> 0, allocs |-> 0]

\* the call op on array v with the array other as its argument
CallWith(op, v, other, idx, val, n, r) ==
    /\ vec' = r.vec
    /\ heap' = r.heap
    /\ last' = [op |-> op, v |-> v, other |-> other, idx |-> idx, val |-> val, n |-> n,
                outcome |-> r.outcome, fail |-> r.fail, k |-> r.k, ret |-> r.ret,
                leaked |-> r.leaked, destroyed |-> r.destroyed, allocs |-> r.allocs]
    /\ UNCHANGED T

Call(op, v, idx, val, n, r, hist) ==
    IF hist \in {"none", "target"}
    THEN /\ vec' = r.vec
         /\ heap' = r.heap
         /\ last' = [InitLast EXCEPT !.op = "call", !.outcome = r.outcome,
                                      !.v = IF hist = "target" THEN v ELSE "a"]
         /\ UNCHANGED T
    ELSE CallWith(op, v, v, idx, val, n, r)

\* a call is made only while the process runs on defined behaviour
Running == last.outcome # "ub"

\* an append is modelled while the capacity it needs is within the bound
CanAppend(v, lim) == vec[v].size < vec[v].capacity \/ GrowthCapacity(vec[v].size) <= lim

Reserve(v, lim, hist) ==
    /\ Running /\ v \in live
    /\ \E n \in 0..lim : \E r \in ReserveResults(vec, heap, v, n) :
          Call("Reserve", v, 0, 0, n, r, hist)
    /\ UNCHANGED <<ref, thrown, live>>

\* how a caller may hand over the new element: as a const T& (copied, for a
\* copy-constructible T) or as a T&& (moved); Emplace also takes constructor
\* arguments
ValueHows == (IF T.copyable THEN {"copy"} ELSE {}) \cup {"move"}

ArgHows == ValueHows \cup {"args"}

\* PushBack(const T& value) and PushBack(T&& value); the reference stack is
\* pushed when the call returns, and thrown records that one threw
PushBack(v, lim, hist) ==
    /\ Running /\ v \in live /\ CanAppend(v, lim)
    /\ \E x \in Values : \E how \in ValueHows :
          \E r \in (IF how = "copy" THEN PushBackResults(vec, heap, v, x)
                     ELSE PushBackMoveResults(vec, heap, v, x)) :
             /\ Call("PushBack", v, 0, x, 0, r, hist)
             /\ ref' = IF hist = "stack" /\ r.outcome = "ok" THEN Append(ref, x) ELSE ref
             /\ thrown' = (thrown \/ (hist = "stack" /\ r.outcome = "threw"))
    /\ UNCHANGED live

EmplaceBack(v, lim, hist) ==
    /\ Running /\ v \in live /\ CanAppend(v, lim)
    /\ \E x \in Values : \E r \in EmplaceBackResults(vec, heap, v, x) :
          Call("EmplaceBack", v, 0, x, 0, r, hist)
    /\ UNCHANGED <<ref, thrown, live>>

\* PopBack(); the reference stack is popped unless it is empty
PopBack(v, hist) ==
    /\ Running /\ v \in live
    /\ \E r \in PopBackResults(vec, heap, v) : Call("PopBack", v, 0, 0, 0, r, hist)
    /\ ref' = IF hist = "stack" /\ Len(ref) > 0 THEN SubSeq(ref, 1, Len(ref) - 1) ELSE ref
    /\ UNCHANGED <<thrown, live>>

\* Emplace(pos, args), Insert(pos, const T& value) and Insert(pos, T&& value),
\* pos in [begin(), end()]
Emplace(v, lim, hist) ==
    /\ Running /\ v \in live /\ CanAppend(v, lim)
    /\ \E idx \in 0..vec[v].size : \E x \in Values : \E how \in ArgHows :
          \E r \in (CASE how = "copy" -> InsertResults(vec, heap, v, idx, x)
                       [] how = "move" -> InsertMoveResults(vec, heap, v, idx, x)
                       [] OTHER -> EmplaceResults(vec, heap, v, idx, x, "args")) :
             Call("Emplace", v, idx, x, 0, r, hist)
    /\ UNCHANGED <<ref, thrown, live>>

\* pos is in [begin(), end()), or the array is empty and pos is begin()
Erase(v, hist) ==
    /\ Running /\ v \in live
    /\ \E idx \in 0..(IF vec[v].size = 0 THEN 0 ELSE vec[v].size - 1) :
          \E r \in EraseResults(vec, heap, v, idx) :
             Call("Erase", v, idx, 0, 0, r, hist)
    /\ UNCHANGED <<ref, thrown, live>>

Resize(v, lim, hist) ==
    /\ Running /\ v \in live
    /\ \E n \in 0..lim : \E r \in ResizeResults(vec, heap, v, n) :
          Call("Resize", v, 0, 0, n, r, hist)
    /\ UNCHANGED <<ref, thrown, live>>

\* PushBack(value) with value a reference to element j of the array itself;
\* the history keeps j as n and the value read as val
PushBackAlias(v, lim, hist) ==
    /\ Running /\ v \in live /\ CanAppend(v, lim) /\ T.copyable
    /\ \E j \in 0..(vec[v].size - 1) :
          \E r \in PushBackAliasResults(vec, heap, v, j) :
             Call("PushBackAlias", v, vec[v].size, Elements(v)[j + 1], j, r, hist)
    /\ UNCHANGED <<ref, thrown, live>>

\* Insert(pos, value) with value a reference to element j of the array itself
InsertAlias(v, lim, hist) ==
    /\ Running /\ v \in live /\ CanAppend(v, lim) /\ T.copyable
    /\ \E idx \in 0..vec[v].size : \E j \in 0..(vec[v].size - 1) :
          \E r \in InsertAliasResults(vec, heap, v, idx, j) :
             Call("InsertAlias", v, idx, Elements(v)[j + 1], j, r, hist)
    /\ UNCHANGED <<ref, thrown, live>>

\* this = other, for a copy-constructible and copy-assignable T
CopyAssign(v, other) ==
    /\ Running /\ v \in live /\ other \in live /\ T.copyable
    /\ \E r \in CopyAssignResults(vec, heap, v, other) :
          CallWith("CopyAssign", v, other, 0, 0, 0, r)
    /\ UNCHANGED <<ref, thrown, live>>

\* this = std::move(other)
MoveAssign(v, other) ==
    /\ Running /\ v \in live /\ other \in live
    /\ \E r \in MoveAssignResults(vec, heap, v, other) :
          CallWith("MoveAssign", v, other, 0, 0, 0, r)
    /\ UNCHANGED <<ref, thrown, live>>

\* (*this)[i] = x for 0 <= i < Size()
Write(v, hist) ==
    /\ Running /\ v \in live
    /\ \E i \in 0..(vec[v].size - 1) : \E x \in Values :
          \E r \in WriteResults(vec, heap, v, i, x) :
             Call("Write", v, i, x, 0, r, hist)
    /\ UNCHANGED <<ref, thrown, live>>

Swap(v, other) ==
    /\ Running /\ v \in live /\ other \in live
    /\ \E r \in SwapResults(vec, heap, v, other) :
          CallWith("Swap", v, other, 0, 0, 0, r)
    /\ UNCHANGED <<ref, thrown, live>>

\* the lifetime of v begins when its constructor returns; a constructor that
\* throws leaves no object
Constructed(op, v, other, n, vs, c) ==
    /\ CallWith(op, v, other, 0, 0, n,
                Res(IF c.outcome = "ok" THEN [vs EXCEPT ![v] = c.obj] ELSE vs, c.heap,
                    c.outcome, c.fail, c.k, NoRet, 0, 0, c.allocs))
    /\ live' = IF c.outcome = "ok" THEN live \cup {v} ELSE live
    /\ UNCHANGED <<ref, thrown>>

\* Vector v;
DefaultConstruct(v) ==
    /\ Running /\ v \notin live
    /\ Constructed("DefaultConstruct", v, v, 0, vec,
                   [obj |-> EmptyVector, heap |-> heap, outcome |-> "ok",
                    fail |-> "none", k |-> 0, allocs |-> 0])

\* Vector v(n);
SizeConstruct(v, lim) ==
    /\ Running /\ v \notin live
    /\ \E n \in 0..lim : \E c \in SizeConstructResults(heap, n) :
          Constructed("SizeConstruct", v, v, n, vec, c)

\* Vector v(other);
CopyConstruct(v, other) ==
    /\ Running /\ v \notin live /\ other \in live /\ T.copyable
    /\ \E c \in CopyConstructResults(heap, vec[other]) :
          Constructed("CopyConstruct", v, other, 0, vec, c)

\* Vector v(std::move(other));
MoveConstructFrom(v, other) ==
    /\ Running /\ v \notin live /\ other \in live
    /\ LET mv == MoveConstruct(vec[other]) IN
          Constructed("MoveConstruct", v, other, 0, [vec EXCEPT ![other] = mv.other],
                      [obj |-> mv.obj, heap |-> heap, outcome |-> "ok",
                       fail |-> "none", k |-> 0, allocs |-> 0])

\* the lifetime of v ends: ~Vector(), then ~RawMemory()
Destroy(v) ==
    /\ Running /\ v \in live
    /\ LET gone == DestroyVector(heap, vec[v]) IN
          CallWith("Destroy", v, v, 0, 0, 0,
                   Res([vec EXCEPT ![v] = EmptyVector], gone.heap, "ok", "none", 0,
                       NoRet, gone.leaked, gone.destroyed, 0))
    /\ live' = live \ {v}
    /\ UNCHANGED <<ref, thrown>>

---------------------------------------------------------------------------
(* Specifications. *)

Init ==
    /\ T \in Types
    /\ vec = [v \in Vecs |-> EmptyVector]
    /\ heap = [b \in Blocks |-> <<>>]
    /\ last = InitLast
    /\ ref = <<>>
    /\ thrown = FALSE
    /\ live = Vecs

Next ==
    \/ Reserve("a", MaxCap, "call")
    \/ PushBack("a", MaxCap, "call")
    \/ EmplaceBack("a", MaxCap, "call")
    \/ PopBack("a", "call")
    \/ Emplace("a", MaxCap, "call")
    \/ Erase("a", "call")
    \/ Resize("a", MaxCap, "call")

Spec == Init /\ [][Next]_vars

\* PushBack and PopBack alone, beside a reference stack
NextStack ==
    \/ PushBack("a", MaxCapStack, "stack")
    \/ PopBack("a", "stack")

SpecStack == Init /\ [][NextStack]_vars

\* The calls that grow the array by doubling, with PopBack to leave spare
\* capacity
NextGrow ==
    \/ PushBack("a", MaxCapStack, "call")
    \/ EmplaceBack("a", MaxCapStack, "call")
    \/ Emplace("a", MaxCapStack, "call")
    \/ PopBack("a", "call")

SpecGrow == Init /\ [][NextGrow]_vars

\* PushBack and Insert of a reference to an element of the array itself,
\* with PushBack of values and PopBack to build the array
NextAlias ==
    \/ PushBack("a", MaxCapStack, "call")
    \/ PopBack("a", "call")
    \/ PushBackAlias("a", MaxCapStack, "call")
    \/ InsertAlias("a", MaxCapStack, "call")

SpecAlias == Init /\ [][NextAlias]_vars

\* Two arrays from before their construction to after their destruction:
\* a is constructed empty or with a size, b is constructed empty, as a copy
\* of a or from a moved a; b is assigned from a and swapped with it, and
\* Reserve and PushBack reallocate its block.
InitLife ==
    /\ T \in Types
    /\ vec = [v \in Vecs |-> EmptyVector]
    /\ heap = [b \in Blocks |-> <<>>]
    /\ last = InitLast
    /\ ref = <<>>
    /\ thrown = FALSE
    /\ live = {}

NextLife ==
    \/ \E v \in Vecs : DefaultConstruct(v)
    \/ SizeConstruct("a", MaxCapTwo)
    \/ CopyConstruct("b", "a")
    \/ MoveConstructFrom("b", "a")
    \/ \E v \in Vecs : Destroy(v)
    \/ Swap("b", "a")
    \/ CopyAssign("b", "a")
    \/ MoveAssign("b", "a")
    \/ Reserve("b", MaxCapTwo, "none")
    \/ PushBack("b", MaxCapTwo, "none")

SpecLife == InitLife /\ [][NextLife]_vars

\* Array a, constructed with a size and filled by PushBack, and its copy b,
\* to which every mutating operation is applied.
NextCopy ==
    \/ SizeConstruct("a", MaxCapTwo)
    \/ PushBack("a", MaxCapTwo, "none")
    \/ CopyConstruct("b", "a")
    \/ Reserve("b", MaxCapTwo, "target")
    \/ PushBack("b", MaxCapTwo, "target")
    \/ PopBack("b", "target")
    \/ Emplace("b", MaxCapTwo, "target")
    \/ Erase("b", "target")
    \/ Resize("b", MaxCapTwo, "target")
    \/ Write("b", "target")

SpecCopy == InitLife /\ [][NextCopy]_vars

\* Every operation on array a, with array b, which PushBack fills, as the
\* other array of the assignments.
NextAssign ==
    \/ Reserve("a", MaxCapTwo, "none")
    \/ PushBack("a", MaxCapTwo, "none")
    \/ EmplaceBack("a", MaxCapTwo, "none")
    \/ PopBack("a", "none")
    \/ Emplace("a", MaxCapTwo, "none")
    \/ Erase("a", "none")
    \/ Resize("a", MaxCapTwo, "none")
    \/ \E other \in Vecs : CopyAssign("a", other)
    \/ \E other \in Vecs : MoveAssign("a", other)
    \/ PushBack("b", MaxCapTwo, "none")

SpecAssign == Init /\ [][NextAssign]_vars

---------------------------------------------------------------------------
(* Properties.  A property of one call relates the state before the call   *)
(* (unprimed) to the state the call leaves (primed); last' names the call. *)

InsertAt(seq, i, x) == SubSeq(seq, 1, i) \o <<x>> \o SubSeq(seq, i + 1, Len(seq))

RemoveAt(seq, i) == SubSeq(seq, 1, i) \o SubSeq(seq, i + 2, Len(seq))

\* the call that leads to the next state was op on array v and returned
Returned(op, v) == last'.op = op /\ last'.v = v /\ last'.outcome = "ok"

\* C1: Insert / Emplace at any index i in [0, Size()], reallocating or not,
\* leaves old[0..i) ++ [v] ++ old[i..Size()), raises Size() by one and returns
\* an iterator to index i of the current storage.
C1_InsertAtAnyIndex ==
    [][\A v \in Vecs :
          Returned("Emplace", v) =>
             /\ Elements(v)' = InsertAt(Elements(v), last'.idx, last'.val)
             /\ vec'[v].size = vec[v].size + 1
             /\ last'.ret = <<vec'[v].buffer, last'.idx>>]_vars

\* C2: Erase at index i in [0, Size()) leaves old[0..i) ++ old[i+1..Size()),
\* lowers Size() by one, destroys one element and returns the iterator at
\* index i, for every element type.
C2_EraseAtAnyIndex ==
    [][\A v \in Vecs :
          Returned("Erase", v) /\ vec[v].size > 0 =>
             /\ Elements(v)' = RemoveAt(Elements(v), last'.idx)
             /\ vec'[v].size = vec[v].size - 1
             /\ last'.destroyed = 1
             /\ last'.ret = <<vec'[v].buffer, last'.idx>>]_vars

C4_CopyAssign == [][\A v \in Vecs : \A o \in Vecs :
      Returned("CopyAssign", v) /\ last'.other = o =>
         /\ vec'[v].size = vec[o].size
         /\ Elements(v)' = Elements(o)
         /\ Elements(o)' = Elements(o)
         /\ vec'[o].size = vec[o].size
         /\ vec'[o].capacity = vec[o].capacity]_vars

\* a copy assignment from a source of two elements, larger than the capacity
\* of the destination, which held one element
C4_Witness == /\ last.op = "CopyAssign" /\ last.outcome = "ok" /\ last.other = "b"
              /\ last.allocs = 1 /\ last.destroyed = 1
              /\ Elements("a") = <<1, 2>> /\ Elements("b") = <<1, 2>>

\* the call that leads to the next state reallocates array v: Reserve (alone
\* or from Resize) past the capacity, or an append or insertion at capacity
Reallocating(v) ==
    /\ last'.v = v
    /\ \/ last'.op \in {"Reserve", "Resize"} /\ last'.n > vec[v].capacity
       \/ last'.op \in {"PushBack", "EmplaceBack", "Emplace"}
          /\ vec[v].size = vec[v].capacity

\* C5: when the copy constructor throws during a reallocation, at whichever
\* invocation, the array keeps its Size(), Capacity(), storage block and
\* element values.
C5_CopyFailureKeepsArray ==
    [][\A v \in Vecs :
          Reallocating(v) /\ last'.outcome = "threw" /\ last'.fail = "copy" =>
             /\ vec'[v] = vec[v]
             /\ Cells(heap', vec[v].buffer) = Cells(heap, vec[v].buffer)]_vars

\* C5's case: a PushBack at capacity built the new element in the new block
\* and the copy of an old element then threw
C5_Witness ==
    /\ last.op = "PushBack" /\ last.outcome = "threw" /\ last.fail = "copy"
    /\ last.k = 1 /\ last.allocs = 1
    /\ vec["a"].size = 1 /\ vec["a"].capacity = 1

\* C6: when a call throws, every element it had constructed has been
\* destroyed: none is lost with its storage, none is left outside [0, Size()).
C6_FailureDestroysWhatItBuilt ==
    last.outcome = "threw" =>
       /\ last.leaked = 0
       /\ LiveCount(Cells(heap, vec[last.v].buffer)) = vec[last.v].size

\* the cells [0, size_) of array v hold objects and [size_, capacity_) are raw
LivePrefix(v) ==
    LET cells == Cells(heap, vec[v].buffer) IN
    /\ 0 <= vec[v].size /\ vec[v].size <= vec[v].capacity
    /\ Len(cells) = vec[v].capacity
    /\ \A i \in 1..Len(cells) : (cells[i] # Raw) <=> (i <= vec[v].size)

\* C7: after every call that returned or threw, 0 <= Size() <= Capacity(),
\* the cells [0, Size()) hold constructed elements and [Size(), Capacity())
\* hold none.
C7_LivePrefixAlways == Running => \A v \in Vecs : LivePrefix(v)

\* C8: whatever Reserve, Resize, PushBack, EmplaceBack, Emplace, Insert,
\* Erase, PopBack, copy assignment and move assignment are applied to array
\* a, its capacity is never smaller than it was in an earlier state.
C8_CapacityNeverDecreases == [][vec'["a"].capacity >= vec["a"].capacity]_vars

\* a move assignment has replaced a block holding one element by the
\* other array's larger block
C8_Witness == /\ last.op = "MoveAssign" /\ last.other = "b" /\ last.destroyed = 1
              /\ vec["a"].capacity = MaxCapTwo /\ vec["b"] = EmptyVector

\* C9: Reserve(n) keeps Size() and the elements; for n <= Capacity() it
\* changes nothing and allocates nothing, otherwise Capacity() becomes n; a
\* second Reserve(n) right after it reallocates nothing.
C9_Reserve ==
    [][\A v \in Vecs :
          Returned("Reserve", v) =>
             /\ vec'[v].size = vec[v].size
             /\ Elements(v)' = Elements(v)
             /\ last'.n <= vec[v].capacity =>
                   vec' = vec /\ heap' = heap /\ last'.allocs = 0
             /\ last'.n > vec[v].capacity => vec'[v].capacity = last'.n
             /\ \A r \in ReserveResults(vec', heap', v, last'.n) :
                   r.outcome = "ok" /\ r.allocs = 0 /\ r.vec = vec' /\ r.heap = heap']_vars

\* C9's case: a Reserve past the capacity has moved two elements to a new block
C9_Witness ==
    /\ last.op = "Reserve" /\ last.outcome = "ok" /\ last.allocs = 1
    /\ vec["a"].size = 2 /\ vec["a"].capacity = last.n

\* C10: Resize(n) sets Size() to n; shrinking destroys exactly the elements at
\* [n, old Size()) and keeps the rest and the capacity; growing keeps the old
\* elements and makes the new ones default-valued; n = Size() changes nothing.
C10_Resize ==
    [][\A v \in Vecs :
          Returned("Resize", v) =>
             LET n == last'.n
                 s == vec[v].size
             IN /\ vec'[v].size = n
                /\ n < s =>
                      /\ vec'[v].capacity = vec[v].capacity
                      /\ vec'[v].buffer = vec[v].buffer
                      /\ Cells(heap', vec[v].buffer) = DestroyN(Cells(heap, vec[v].buffer), n, s - n)
                      /\ Elements(v)' = SubSeq(Elements(v), 1, n)
                      /\ last'.destroyed = s - n
                /\ n > s =>
                      /\ SubSeq(Elements(v)', 1, s) = Elements(v)
                      /\ \A i \in (s + 1)..n : Elements(v)'[i] = DefaultValue
                /\ n = s => vec' = vec /\ heap' = heap]_vars

\* C10's case: a Resize has grown a non-empty array past its capacity
C10_Witness ==
    /\ last.op = "Resize" /\ last.outcome = "ok" /\ last.allocs = 1
    /\ vec["a"].size = 3 /\ Elements("a")[1] \in Values /\ Elements("a")[3] = DefaultValue

\* an element type whose move and copy operations cannot throw
NothrowType == T.nothrowMove /\ T.nothrowMoveAssign /\ ~T.throws

\* C11: for an element type with non-throwing move and copy, Insert at any
\* index i in [0, Size()], reallocating or not, returns unless the
\* allocation fails, and an Erase at index i right after it restores the
\* elements and Size() of before the Insert.
C11_InsertThenErase ==
    [][\A v \in Vecs :
          /\ NothrowType
          /\ last'.op = "Emplace" /\ last'.v = v /\ last'.outcome # "threw"
          => /\ last'.outcome = "ok"
             /\ \A r \in EraseResults(vec', heap', v, last'.idx) :
                   /\ r.outcome = "ok"
                   /\ r.vec[v].size = vec[v].size
                   /\ ElementsOf(r.vec, r.heap, v) = Elements(v)]_vars

\* C12: this = std::move(other) with other.Size() > this.Capacity() gives
\* this other's former elements, Size() and Capacity(), leaves other a valid
\* array of size 0, destroys the former elements of this, each once, and
\* releases the former block of this, which no array holds afterwards.
C12_MoveAssignSteals ==
    [][\A v \in Vecs : \A o \in Vecs :
          /\ Returned("MoveAssign", v) /\ last'.other = o
          /\ o # v /\ vec[o].size > vec[v].capacity
          => /\ Elements(v)' = Elements(o)
             /\ vec'[v] = vec[o]
             /\ vec'[o].size = 0 /\ LivePrefix(o)'
             /\ last'.destroyed = vec[v].size
             /\ last'.leaked = LiveCount(Cells(heap, vec[v].buffer)) - vec[v].size
             /\ vec[v].buffer # NullPtr =>
                   /\ heap'[vec[v].buffer] = <<>>
                   /\ \A w \in Vecs : vec'[w].buffer # vec[v].buffer]_vars

\* C12's case: a move assignment has replaced the one element of this by
\* the two elements of other
C12_Witness ==
    /\ last.op = "MoveAssign" /\ last.outcome = "ok" /\ last.other = "b"
    /\ last.destroyed = 1
    /\ Elements("a") = <<2, 1>> /\ vec["b"] = EmptyVector

\* C16: this = std::move(other) with this and other two arrays and
\* other.Size() <= this.Capacity() changes neither array: nothing of other
\* is transferred to this.
C16_MoveAssignNoop ==
    [][\A v \in Vecs : \A o \in Vecs :
          /\ Returned("MoveAssign", v) /\ last'.other = o
          /\ o # v /\ vec[o].size <= vec[v].capacity
          => vec' = vec /\ heap' = heap]_vars

\* C16's case: after the move assignment this still holds its element and
\* other still holds its own
C16_Witness ==
    /\ last.op = "MoveAssign" /\ last.outcome = "ok" /\ last.other = "b"
    /\ Elements("a") = <<1>> /\ Elements("b") = <<2>>

\* C17: PushBack, EmplaceBack and Insert / Emplace change Capacity() only
\* when called with Size() == Capacity(); the new capacity is then 1 if the
\* old one was 0 and twice the old one otherwise; in every other case the
\* capacity and the storage block are unchanged.
C17_GrowthByDoubling ==
    [][\A v \in Vecs :
          last'.v = v /\ last'.op \in {"PushBack", "EmplaceBack", "Emplace"} =>
             LET old == vec[v].capacity
                 doubled == IF old = 0 THEN 1 ELSE 2 * old
             IN /\ vec'[v].capacity # old =>
                      vec[v].size = old /\ vec'[v].capacity = doubled
                /\ vec[v].size = old /\ last'.outcome = "ok" =>
                      vec'[v].capacity = doubled
                /\ vec[v].size # old =>
                      vec'[v].capacity = old /\ vec'[v].buffer = vec[v].buffer]_vars

\* C17's case: an Emplace at Size() == Capacity() == 2 has doubled the capacity
C17_Witness ==
    /\ last.op = "Emplace" /\ last.outcome = "ok" /\ last.allocs = 1
    /\ vec["a"].size = 3 /\ vec["a"].capacity = 4

\* the call that leads to the next state was a PushBack or EmplaceBack on
\* array v at Size() == Capacity() that threw while migrating, at element k
GrowthFailed(v) ==
    /\ last'.v = v /\ last'.op \in {"PushBack", "EmplaceBack"}
    /\ vec[v].size = vec[v].capacity
    /\ last'.outcome = "threw" /\ last'.k > 0

\* C19, as stated: when the growth path of PushBack / EmplaceBack fails
\* while migrating, the array has the storage, Size() and Capacity() of
\* before and its elements are untouched, none moved from, for every
\* element type.
C19_GrowthFailureKeepsElements ==
    [][\A v \in Vecs :
          GrowthFailed(v) =>
             /\ vec'[v] = vec[v]
             /\ Cells(heap', vec[v].buffer) = Cells(heap, vec[v].buffer)]_vars

\* C19, amended: the same for an element type that is copy constructible
\* or whose move constructor cannot throw; for a type without copy
\* constructor whose move constructor throws at element k, the array has
\* the storage, Size() and Capacity() of before, its first k - 1 elements
\* are moved from and the others are untouched.
C19_GrowthFailureAmended ==
    [][\A v \in Vecs :
          GrowthFailed(v) =>
             LET cells == Cells(heap, vec[v].buffer) IN
             /\ vec'[v] = vec[v]
             /\ Cells(heap', vec[v].buffer) =
                   IF T.copyable \/ T.nothrowMove THEN cells
                   ELSE [i \in DOMAIN cells |->
                           IF i < last'.k THEN MovedFrom(cells[i]) ELSE cells[i]]]_vars

\* C19's case: the second move of a PushBack at capacity threw, for the
\* move-only type: the first element is moved from, the second is intact
C19_Witness ==
    /\ ~T.copyable /\ last.op = "PushBack" /\ last.outcome = "threw"
    /\ last.fail = "move" /\ last.k = 2
    /\ vec["a"].size = 2 /\ Elements("a") = <<Moved, 2>>

\* C18: when the value passed to Insert(pos, value) or PushBack(value) is a
\* reference to element j of the same array, the call returns unless
\* something throws, and the element inserted has the value element j had
\* before the call, reallocating or not: the value is not read from a slot
\* that has been overwritten or moved from.
C18_AliasedValueInserted ==
    [][\A v \in Vecs :
          /\ last'.v = v /\ last'.op \in {"PushBackAlias", "InsertAlias"}
          /\ last'.outcome # "threw"
          => /\ last'.outcome = "ok"
             /\ vec'[v].size = vec[v].size + 1
             /\ Elements(v)'[last'.idx + 1] = Elements(v)[last'.n + 1]]_vars

\* C13: move-constructing array v from array o leaves o with Size() == 0 and
\* Capacity() == 0 and gives v the size, the capacity, the block and the
\* elements o had; no element is constructed, copied or destroyed and no
\* block is allocated or released: the heap is as it was.
C13_MoveConstructSteals ==
    [][\A v, o \in Vecs :
          last'.op = "MoveConstruct" /\ last'.v = v /\ last'.other = o
          => /\ last'.outcome = "ok" /\ v \in live' /\ o \in live'
             /\ vec'[o].size = 0 /\ vec'[o].capacity = 0
             /\ vec'[v] = vec[o]
             /\ Elements(v)' = Elements(o)
             /\ heap' = heap]_vars

\* C13's case: b has been move-constructed from a, which held [1, 2]
C13_Witness ==
    /\ last.op = "MoveConstruct" /\ last.v = "b" /\ last.other = "a"
    /\ Elements("b") = <<1, 2>> /\ vec["b"].capacity = 2
    /\ vec["a"] = EmptyVector /\ live = {"a", "b"}

\* C14: copy-constructing v from o gives v Size() == o.Size(), Capacity() ==
\* o.Size() and the elements of o in a block that is not o's, and leaves o
\* as it was; afterwards every mutating operation on v (PushBack, PopBack,
\* Insert / Emplace, Erase, Resize, Reserve, a write to an element) leaves
\* the size, the capacity, the block and the elements of o as they were.
C14_CopyIsIndependent ==
    [][\A v, o \in Vecs :
          /\ (Returned("CopyConstruct", v) /\ last'.other = o
               => /\ vec'[v].size = vec[o].size /\ vec'[v].capacity = vec[o].size
                  /\ Elements(v)' = Elements(o)
                  /\ vec'[v].buffer # NullPtr => vec'[v].buffer # vec[o].buffer
                  /\ vec'[o] = vec[o] /\ Elements(o)' = Elements(o))
          /\ (last'.op = "call" /\ last'.v = v /\ o # v /\ o \in live
               => /\ vec'[o] = vec[o]
                  /\ Elements(o)' = Elements(o))]_vars

\* the blocks that are allocated
AllocatedBlocks == {b \in Blocks : heap[b] # <<>>}

\* C15: while the process runs on defined behaviour, no block is owned by
\* two live arrays, the block a live array owns is allocated and has
\* Capacity() cells (it has not been released), and every allocated block is
\* owned by a live array (none is left unreleased by a destroyed owner, a
\* failed call or a temporary).
C15_BlocksOwnedOnce ==
    Running =>
       /\ \A v, w \in live :
             v # w /\ vec[v].buffer # NullPtr => vec[v].buffer # vec[w].buffer
       /\ \A v \in live :
             /\ vec[v].buffer # NullPtr => vec[v].buffer \in AllocatedBlocks
             /\ Len(Cells(heap, vec[v].buffer)) = vec[v].capacity
       /\ \A b \in AllocatedBlocks : \E v \in live : vec[v].buffer = b

\* C15's case: b took the block of a, which held two elements, by a move,
\* and b has then been destroyed: a owns nothing and nothing is allocated
C15_Witness ==
    /\ last.op = "Destroy" /\ last.v = "b" /\ last.destroyed = 2
    /\ live = {"a"} /\ vec["a"] = EmptyVector /\ AllocatedBlocks = {}

====
